---- MODULE Spec2Model ----
(***************************************************************************)
(* A model of the QuizApp class of script.js: the session fields of the    *)
(* object, the parts of the document its methods read back or that a       *)
(* property observes (screen classes, option cards, submit button,         *)
(* counters, result fields, theme attribute, announcements), localStorage, *)
(* and the pending setTimeout callbacks that call nextQuestion.            *)
(*                                                                         *)
(* Every method is an operator from a state record to a state record; a    *)
(* TypeError thrown in the middle of a method keeps the assignments made   *)
(* before it and skips the rest of the event handler (field threw).        *)
(* The two copies of the class in script.js (lines 2-454 and 500-1097)     *)
(* differ only in how card markup is built and in CSS class names; the     *)
(* line numbers below are those of the first copy.                         *)
(*                                                                         *)
(* Not part of the state: the subject header, animation classes and their  *)
(* 500 ms timers, the 100 ms focus timers, console output. None of them is *)
(* read by a method.                                                       *)
(***************************************************************************)
EXTENDS Integers, Sequences, FiniteSets, TLC

(***************************************************************************)
(* Bounds                                                                  *)
(***************************************************************************)
\* Most nextQuestion timers pending at once (a submit that would schedule
\* one more is not offered).
MaxTimers == 2

(***************************************************************************)
(* Values                                                                  *)
(***************************************************************************)
\* this.selectedAnswer = null
Null == -1
\* this.currentQuiz = null; quizzes are numbered from 1 in the model
NoQuiz == 0
\* The value of an out-of-range array read, as a text that no string equals
Undefined == <<"undefined">>

\* #progress-fill before any question is rendered: no inline width
NoWidth == <<0, 1>>

Screens == {"start-screen", "quiz-screen", "results-screen"}

\* A message for the screen reader: its fixed words and the value spliced in
Message(msg, arg) == [msg |-> msg, arg |-> arg]

\* Texts are sequences of characters.
Ta == <<"a">>
Tb == <<"b">>
Tc == <<"c">>
Td == <<"d">>
Tw == <<"w">>
Tx == <<"x">>
Ty == <<"y">>
Tz == <<"z">>
TTagP == <<"<", "p", ">">>
TEntLt == <<"&", "l", "t", ";">>
TAmp == <<"a", "&", "b">>

Question(opts, ans) == [options |-> opts, answer |-> ans]
Quiz(t, qs) == [title |-> t, hasQuestions |-> TRUE, questions |-> qs]
\* A quiz object without its questions field
QuizNoQuestions(t) == [title |-> t, hasQuestions |-> FALSE, questions |-> <<>>]

\* The documents data.json may hold.
DocScenarioA ==
    << Quiz("HTML", << Question(<<Ta, Tb, Tc, Td>>, Tb),
                       Question(<<Tw, Tx, Ty, Tz>>, Tz) >>),
       Quiz("CSS",  << Question(<<TTagP, TEntLt, TAmp>>, TTagP) >>) >>

\* Fewer than four options, an option text that occurs twice, and a quiz
\* whose list of questions is empty
DocOdd ==
    << Quiz("JS",    << Question(<<Tc, Td, Tc>>, Tc) >>),
       Quiz("Empty", << >>) >>

\* A quiz object that lacks its questions field
DocMalformed ==
    << Quiz("A11y", << Question(<<Ta, TEntLt>>, TEntLt) >>),
       QuizNoQuestions("Broken") >>

Documents == {DocScenarioA, DocOdd, DocMalformed}

\* What localStorage may hold under 'quiz-theme' at startup ("" is absent)
StoredThemes == {"", "light", "dark", "blue"}

(***************************************************************************)
(* escapeHtml and the way a card's text is read back                       *)
(***************************************************************************)
EscapeChar(c) ==
    IF c = "&" THEN <<"&", "a", "m", "p", ";">>
    ELSE IF c = "<" THEN <<"&", "l", "t", ";">>
    ELSE IF c = ">" THEN <<"&", "g", "t", ";">>
    ELSE <<c>>

RECURSIVE escapeHtml(_)
\* div.textContent = text; return div.innerHTML
escapeHtml(text) ==
    IF text = <<>> THEN <<>>
    ELSE EscapeChar(Head(text)) \o escapeHtml(Tail(text))

StartsWith(s, p) ==
    /\ Len(s) >= Len(p)
    /\ SubSeq(s, 1, Len(p)) = p

Drop(s, n) == SubSeq(s, n + 1, Len(s))

RECURSIVE textContent(_)
\* The text of an element whose innerHTML is the markup html: character
\* references are decoded, every other character stands for itself.
textContent(html) ==
    IF html = <<>> THEN <<>>
    ELSE IF StartsWith(html, <<"&", "a", "m", "p", ";">>)
        THEN <<"&">> \o textContent(Drop(html, 5))
    ELSE IF StartsWith(html, <<"&", "l", "t", ";">>)
        THEN <<"<">> \o textContent(Drop(html, 4))
    ELSE IF StartsWith(html, <<"&", "g", "t", ";">>)
        THEN <<">">> \o textContent(Drop(html, 4))
    ELSE <<Head(html)>> \o textContent(Tail(html))

(***************************************************************************)
(* State                                                                   *)
(***************************************************************************)
VARIABLES
    phase,                  \* "loading", "ready" (init done), "failed"
    quizzes,                \* this.quizzes
    currentQuiz,            \* this.currentQuiz, as an index into quizzes
    currentQuestionIndex,   \* this.currentQuestionIndex
    score,                  \* this.score
    selectedAnswer,         \* this.selectedAnswer
    answered,               \* this.answered
    visibleScreens,         \* screens carrying class screen-visible
    hiddenScreens,          \* screens carrying class screen-hidden
    optionCards,            \* the .option-card elements of #options-grid
    submitDisabled,         \* #submit-btn.disabled
    questionNumber,         \* #question-number
    questionTotal,          \* #question-total
    progressFill,           \* #progress-fill style.width as <<n, d>>, the
                            \* width being (n / d) * 100 percent
    scoreNumber,            \* #score-number
    resultsTotal,           \* #results-total
    announcement,           \* the message the last step gave to
                            \* announceToScreenReader (its element is removed
                            \* after one second)
    errorsShown,            \* number of error notifications created
    timers,                 \* pending setTimeout(() => this.nextQuestion(), 2000)
    dataTheme,              \* <html data-theme>, "" when the attribute is absent
    storedTheme,            \* localStorage 'quiz-theme', "" when absent
    \* history variables
    lastEvent,              \* the event handled by the last step
    lastPick,               \* argument of the last selectOption that selected
    presented,              \* indices rendered since the last selectSubject
    submitted,              \* indices of the accepted submits since the
                            \* last selectSubject
    expectedScore,          \* how many of them had, as last picked option, one
                            \* whose text is the question's answer
    advances,               \* nextQuestion calls since the last selectSubject
    resultsShown,           \* showResults calls since the last selectSubject
    interrupted,            \* showStartScreen or Play Again since selectSubject
    staleTimers             \* pending timers scheduled before the last
                            \* showStartScreen or selectSubject

appVars == <<currentQuiz, currentQuestionIndex, score, selectedAnswer, answered>>
domVars == <<visibleScreens, hiddenScreens, optionCards, submitDisabled,
             questionNumber, questionTotal, progressFill, scoreNumber,
             resultsTotal,
             announcement, errorsShown, dataTheme>>
histVars == <<lastEvent, lastPick, presented, submitted, expectedScore, advances,
              resultsShown, interrupted, staleTimers>>
vars == <<phase, quizzes, appVars, domVars, timers, storedTheme, histVars>>

\* The state as one record, for the methods to transform.
State ==
    [ quizzes |-> quizzes,
      currentQuiz |-> currentQuiz,
      currentQuestionIndex |-> currentQuestionIndex,
      score |-> score,
      selectedAnswer |-> selectedAnswer,
      answered |-> answered,
      visibleScreens |-> visibleScreens,
      hiddenScreens |-> hiddenScreens,
      optionCards |-> optionCards,
      submitDisabled |-> submitDisabled,
      questionNumber |-> questionNumber,
      questionTotal |-> questionTotal,
      progressFill |-> progressFill,
      scoreNumber |-> scoreNumber,
      resultsTotal |-> resultsTotal,
      announcement |-> Message("", ""),
      timers |-> timers,
      dataTheme |-> dataTheme,
      storedTheme |-> storedTheme,
      lastPick |-> lastPick,
      presented |-> presented,
      submitted |-> submitted,
      expectedScore |-> expectedScore,
      advances |-> advances,
      resultsShown |-> resultsShown,
      interrupted |-> interrupted,
      staleTimers |-> staleTimers,
      threw |-> FALSE,
      renderQuestionCalled |-> FALSE ]

\* The step that leaves the program in state record s after event ev.
Becomes(s, ev) ==
    /\ currentQuiz' = s.currentQuiz
    /\ currentQuestionIndex' = s.currentQuestionIndex
    /\ score' = s.score
    /\ selectedAnswer' = s.selectedAnswer
    /\ answered' = s.answered
    /\ visibleScreens' = s.visibleScreens
    /\ hiddenScreens' = s.hiddenScreens
    /\ optionCards' = s.optionCards
    /\ submitDisabled' = s.submitDisabled
    /\ questionNumber' = s.questionNumber
    /\ questionTotal' = s.questionTotal
    /\ progressFill' = s.progressFill
    /\ scoreNumber' = s.scoreNumber
    /\ resultsTotal' = s.resultsTotal
    /\ announcement' = s.announcement
    /\ timers' = s.timers
    /\ dataTheme' = s.dataTheme
    /\ storedTheme' = s.storedTheme
    /\ lastPick' = s.lastPick
    /\ presented' = s.presented
    /\ submitted' = s.submitted
    /\ expectedScore' = s.expectedScore
    /\ advances' = s.advances
    /\ resultsShown' = s.resultsShown
    /\ interrupted' = s.interrupted
    /\ staleTimers' = s.staleTimers
    /\ lastEvent' = ev
    /\ quizzes' = s.quizzes

\* The step of an installed handler that ends in state record s.
Handled(s, ev) ==
    /\ Becomes(s, ev)
    /\ UNCHANGED <<phase, errorsShown>>


(***************************************************************************)
(* Helpers of the methods                                                  *)
(***************************************************************************)
\* An uncaught TypeError: the rest of the handler does not run.
Throw(s) == [s EXCEPT !.threw = TRUE]

\* this.currentQuiz, once known to be an object
QuizOf(s) == s.quizzes[s.currentQuiz]

\* currentQuiz.questions can be indexed (currentQuiz is an object that has
\* a questions array)
HasQuestions(s) ==
    /\ s.currentQuiz # NoQuiz
    /\ QuizOf(s).hasQuestions

\* currentQuiz.questions[currentQuestionIndex] is a question
HasQuestion(s) ==
    /\ HasQuestions(s)
    /\ s.currentQuestionIndex + 1 \in DOMAIN QuizOf(s).questions

QuestionOf(s) == QuizOf(s).questions[s.currentQuestionIndex + 1]

\* The text of the option last picked on the current question
PickedText(s) ==
    IF s.lastPick + 1 \in DOMAIN QuestionOf(s).options
    THEN QuestionOf(s).options[s.lastPick + 1]
    ELSE Undefined

Letters == <<"A", "B", "C", "D">>

LetterOf(i) == IF i + 1 \in DOMAIN Letters THEN Letters[i + 1] ELSE "undefined"

\* classList.remove('screen-hidden'); classList.add('screen-visible')
ShowScreen(s, id) ==
    [s EXCEPT !.hiddenScreens = @ \ {id},
              !.visibleScreens = @ \cup {id}]

(***************************************************************************)
(* Methods of QuizApp                                                      *)
(***************************************************************************)
announceToScreenReader(s, message) == [s EXCEPT !.announcement = message]

\* Faulty variant of loadTheme: the saved theme is not read.
loadThemeAlwaysLight(s) == [s EXCEPT !.dataTheme = "light"]

loadTheme(s) ==
    LET savedTheme == IF s.storedTheme = "" THEN "light" ELSE s.storedTheme
    IN  [s EXCEPT !.dataTheme = savedTheme]

\* Faulty variant of toggleTheme: the new theme is applied but not saved.
toggleThemeNotSaved(s) ==
    LET newTheme == IF s.dataTheme = "light" THEN "dark" ELSE "light"
    IN  announceToScreenReader(
            [s EXCEPT !.dataTheme = newTheme],
            Message("Switched to theme", newTheme))

\* Faulty variant of toggleTheme: the toggle also drops the selection.
toggleThemeClearsSelection(s) ==
    LET newTheme == IF s.dataTheme = "light" THEN "dark" ELSE "light"
    IN  announceToScreenReader(
            [s EXCEPT !.dataTheme = newTheme, !.storedTheme = newTheme,
                      !.selectedAnswer = Null],
            Message("Switched to theme", newTheme))

toggleTheme(s) ==
    LET newTheme == IF s.dataTheme = "light" THEN "dark" ELSE "light"
    IN  announceToScreenReader(
            [s EXCEPT !.dataTheme = newTheme, !.storedTheme = newTheme],
            Message("Switched to theme", newTheme))

hideAllScreens(s) ==
    [s EXCEPT !.hiddenScreens = @ \cup Screens,
              !.visibleScreens = @ \ Screens]

renderStartScreen(s) == ShowScreen(hideAllScreens(s), "start-screen")

\* Faulty variant of createOptionCard: the card's text reads back as the
\* escaped markup (innerHTML) instead of the text.
createOptionCardInnerHtml(optionText) ==
    [ text |-> escapeHtml(optionText),
      selected |-> FALSE,
      correct |-> FALSE,
      incorrect |-> FALSE,
      correctIcon |-> FALSE,
      incorrectIcon |-> FALSE ]

createOptionCard(optionText) ==
    [ text |-> textContent(escapeHtml(optionText)),
      selected |-> FALSE,
      correct |-> FALSE,
      incorrect |-> FALSE,
      correctIcon |-> FALSE,
      incorrectIcon |-> FALSE ]

renderOptions(s, options) ==
    [s EXCEPT !.optionCards =
        [i \in DOMAIN options |-> createOptionCard(options[i])]]

\* style.width = `${((index + 1) / length) * 100}%`: with length 0 the
\* text is "Infinity%", which is no width, and the assignment is ignored.
ProgressWidth(old, n, d) == IF d = 0 THEN old ELSE <<n, d>>

renderQuestion(s) ==
    IF ~HasQuestions(s) THEN Throw([s EXCEPT !.renderQuestionCalled = TRUE])
    ELSE
        LET s1 == [s EXCEPT
                     !.renderQuestionCalled = TRUE,
                     !.questionNumber = s.currentQuestionIndex + 1,
                     !.questionTotal = Len(QuizOf(s).questions),
                     !.progressFill =
                         ProgressWidth(@, s.currentQuestionIndex + 1,
                                       Len(QuizOf(s).questions))]
        IN  IF ~HasQuestion(s1) THEN Throw(s1)
            ELSE [renderOptions(s1, QuestionOf(s1).options) EXCEPT
                     !.selectedAnswer = Null,
                     !.answered = FALSE,
                     !.submitDisabled = TRUE,
                     !.lastPick = Null,
                     !.presented = Append(@, s.currentQuestionIndex)]

\* Faulty variant of startQuiz: the score is reset whenever the Quiz screen
\* is entered.
startQuizResetsScore(s) ==
    LET s1 == [ShowScreen(hideAllScreens(s), "quiz-screen") EXCEPT !.score = 0]
    IN  IF s1.currentQuiz = NoQuiz THEN Throw(s1) ELSE renderQuestion(s1)

startQuiz(s) ==
    LET s1 == ShowScreen(hideAllScreens(s), "quiz-screen")
    IN  IF s1.currentQuiz = NoQuiz THEN Throw(s1) ELSE renderQuestion(s1)

\* Faulty variant of selectSubject: the score of the previous session is
\* not reset.
selectSubjectKeepsScore(s, quizIndex) ==
    startQuiz([s EXCEPT
        !.currentQuiz = quizIndex,
        !.currentQuestionIndex = 0,
        !.selectedAnswer = Null,
        !.answered = FALSE,
        !.presented = <<>>,
        !.submitted = <<>>,
        !.expectedScore = 0,
        !.advances = 0,
        !.resultsShown = 0,
        !.interrupted = FALSE,
        !.staleTimers = s.timers])

selectSubject(s, quizIndex) ==
    startQuiz([s EXCEPT
        !.currentQuiz = quizIndex,
        !.currentQuestionIndex = 0,
        !.score = 0,
        !.selectedAnswer = Null,
        !.answered = FALSE,
        !.presented = <<>>,
        !.submitted = <<>>,
        !.expectedScore = 0,
        !.advances = 0,
        !.resultsShown = 0,
        !.interrupted = FALSE,
        !.staleTimers = s.timers])

\* The first card with class option-card--selected, 0 if there is none
FirstSelected(cards) ==
    IF \E i \in DOMAIN cards : cards[i].selected
    THEN CHOOSE i \in DOMAIN cards :
            /\ cards[i].selected
            /\ \A j \in 1..(i - 1) : ~cards[j].selected
    ELSE 0

\* Faulty variant of selectOption: once an option is selected, a later
\* selection moves the highlight but not this.selectedAnswer.
selectOptionKeepsFirst(s, optionIndex) ==
    IF s.answered THEN s
    ELSE
        LET prev == FirstSelected(s.optionCards)
            cleared == [i \in DOMAIN s.optionCards |->
                          IF i = prev
                          THEN [s.optionCards[i] EXCEPT !.selected = FALSE]
                          ELSE s.optionCards[i]]
            s1 == [s EXCEPT !.optionCards = cleared]
        IN  IF optionIndex + 1 \notin DOMAIN s.optionCards THEN Throw(s1)
            ELSE announceToScreenReader(
                    [s1 EXCEPT
                        !.optionCards[optionIndex + 1].selected = TRUE,
                        !.selectedAnswer =
                            IF @ = Null THEN optionIndex ELSE @,
                        !.submitDisabled = FALSE,
                        !.lastPick = optionIndex],
                    Message("Selected option", LetterOf(optionIndex)))

\* Faulty variant of selectOption: the test of this.answered is left out.
selectOptionIgnoresAnswered(s, optionIndex) ==
    LET prev == FirstSelected(s.optionCards)
        cleared == [i \in DOMAIN s.optionCards |->
                      IF i = prev
                      THEN [s.optionCards[i] EXCEPT !.selected = FALSE]
                      ELSE s.optionCards[i]]
        s1 == [s EXCEPT !.optionCards = cleared]
    IN  IF optionIndex + 1 \notin DOMAIN s.optionCards THEN Throw(s1)
        ELSE announceToScreenReader(
                [s1 EXCEPT
                    !.optionCards[optionIndex + 1].selected = TRUE,
                    !.selectedAnswer = optionIndex,
                    !.submitDisabled = FALSE,
                    !.lastPick = optionIndex],
                Message("Selected option", LetterOf(optionIndex)))

selectOption(s, optionIndex) ==
    IF s.answered THEN s
    ELSE
        LET prev == FirstSelected(s.optionCards)
            cleared == [i \in DOMAIN s.optionCards |->
                          IF i = prev
                          THEN [s.optionCards[i] EXCEPT !.selected = FALSE]
                          ELSE s.optionCards[i]]
            s1 == [s EXCEPT !.optionCards = cleared]
        IN  IF optionIndex + 1 \notin DOMAIN s.optionCards THEN Throw(s1)
            ELSE announceToScreenReader(
                    [s1 EXCEPT
                        !.optionCards[optionIndex + 1].selected = TRUE,
                        !.selectedAnswer = optionIndex,
                        !.submitDisabled = FALSE,
                        !.lastPick = optionIndex],
                    Message("Selected option", LetterOf(optionIndex)))

showAnswerResult(s, isCorrect) ==
    LET question == QuestionOf(s)
        annotate(card, index) ==
            LET isSelected == (index = s.selectedAnswer)
                isCorrectAnswer == (card.text = question.answer)
            IN  [card EXCEPT
                    !.correct = @ \/ isCorrectAnswer,
                    !.incorrect = @ \/ (isSelected /\ ~isCorrectAnswer),
                    !.correctIcon = isCorrectAnswer,
                    !.incorrectIcon = isSelected /\ ~isCorrectAnswer]
    IN  announceToScreenReader(
            [s EXCEPT !.optionCards =
                [i \in DOMAIN s.optionCards |->
                    annotate(s.optionCards[i], i - 1)]],
            Message(IF isCorrect THEN "Correct!" ELSE "Incorrect!", ""))

\* Faulty variant of showResults: the other screens are not hidden first.
showResultsNoHide(s) ==
    LET s1 == [ShowScreen(s, "results-screen") EXCEPT
                  !.resultsShown = @ + 1]
    IN  IF s1.currentQuiz = NoQuiz THEN Throw(s1)
        ELSE IF ~HasQuestions(s1) THEN Throw([s1 EXCEPT !.scoreNumber = s.score])
        ELSE [s1 EXCEPT
                !.scoreNumber = s.score,
                !.resultsTotal = Len(QuizOf(s).questions)]

showResults(s) ==
    LET s1 == [ShowScreen(hideAllScreens(s), "results-screen") EXCEPT
                  !.resultsShown = @ + 1]
    IN  IF s1.currentQuiz = NoQuiz THEN Throw(s1)
        ELSE IF ~HasQuestions(s1) THEN Throw([s1 EXCEPT !.scoreNumber = s.score])
        ELSE [s1 EXCEPT
                !.scoreNumber = s.score,
                !.resultsTotal = Len(QuizOf(s).questions)]

\* Faulty variant of nextQuestion: > in place of >=.
nextQuestionOffByOne(s) ==
    LET s1 == [s EXCEPT !.currentQuestionIndex = @ + 1,
                        !.advances = @ + 1]
    IN  IF ~HasQuestions(s1) THEN Throw(s1)
        ELSE IF s1.currentQuestionIndex > Len(QuizOf(s1).questions)
            THEN showResults(s1)
        ELSE renderQuestion(s1)

\* Faulty variant of nextQuestion: the timer's callback does nothing.
nextQuestionDoesNothing(s) == s

nextQuestion(s) ==
    LET s1 == [s EXCEPT !.currentQuestionIndex = @ + 1,
                        !.advances = @ + 1]
    IN  IF ~HasQuestions(s1) THEN Throw(s1)
        ELSE IF s1.currentQuestionIndex >= Len(QuizOf(s1).questions)
            THEN showResults(s1)
        ELSE renderQuestion(s1)

\* Faulty variant of submitRejected: the test for a missing selection is
\* left out.
submitRejectedOnlyAnswered(s) == s.answered

\* Faulty variant of isCorrectSelection: the escaped option text is compared
\* with the answer.
isCorrectSelectionEscaped(question, selected) ==
    LET selectedOption ==
            IF selected + 1 \in DOMAIN question.options
            THEN escapeHtml(question.options[selected + 1])
            ELSE Undefined
    IN  selectedOption = question.answer

\* if (this.selectedAnswer === null || this.answered) return;
submitRejected(s) == s.selectedAnswer = Null \/ s.answered

\* question.options[this.selectedAnswer] === question.answer
isCorrectSelection(question, selected) ==
    LET selectedOption ==
            IF selected + 1 \in DOMAIN question.options
            THEN question.options[selected + 1]
            ELSE Undefined
    IN  selectedOption = question.answer

\* Faulty variant of submitAnswer: a correct answer counts twice.
submitAnswerCountsTwice(s) ==
    IF submitRejected(s) THEN s
    ELSE
        LET s1 == [s EXCEPT !.answered = TRUE]
        IN  IF ~HasQuestion(s1) THEN Throw(s1)
            ELSE
                LET question == QuestionOf(s1)
                    isCorrect == isCorrectSelection(question, s1.selectedAnswer)
                    s2 == IF isCorrect THEN [s1 EXCEPT !.score = @ + 2] ELSE s1
                IN  [showAnswerResult(s2, isCorrect) EXCEPT
                        !.submitDisabled = TRUE,
                        !.timers = @ + 1,
                        !.submitted = Append(@, s.currentQuestionIndex),
                        !.expectedScore =
                            IF PickedText(s) = question.answer
                            THEN @ + 1 ELSE @]

\* Faulty variant of submitAnswer: this.answered is not set.
submitAnswerLeavesUnanswered(s) ==
    IF submitRejected(s) THEN s
    ELSE
        IF ~HasQuestion(s) THEN Throw(s)
        ELSE
            LET question == QuestionOf(s)
                isCorrect == isCorrectSelection(question, s.selectedAnswer)
                s2 == IF isCorrect THEN [s EXCEPT !.score = @ + 1] ELSE s
            IN  [showAnswerResult(s2, isCorrect) EXCEPT
                    !.submitDisabled = TRUE,
                    !.timers = @ + 1,
                    !.submitted = Append(@, s.currentQuestionIndex),
                    !.expectedScore =
                        IF PickedText(s) = question.answer
                        THEN @ + 1 ELSE @]

submitAnswer(s) ==
    IF submitRejected(s) THEN s
    ELSE
        LET s1 == [s EXCEPT !.answered = TRUE]
        IN  IF ~HasQuestion(s1) THEN Throw(s1)
            ELSE
                LET question == QuestionOf(s1)
                    isCorrect == isCorrectSelection(question, s1.selectedAnswer)
                    s2 == IF isCorrect THEN [s1 EXCEPT !.score = @ + 1] ELSE s1
                IN  [showAnswerResult(s2, isCorrect) EXCEPT
                        !.submitDisabled = TRUE,
                        !.timers = @ + 1,
                        !.submitted = Append(@, s.currentQuestionIndex),
                        !.expectedScore =
                            IF PickedText(s) = question.answer
                            THEN @ + 1 ELSE @]

showStartScreen(s) ==
    [ShowScreen(hideAllScreens(s), "start-screen") EXCEPT
        !.interrupted = TRUE,
        !.staleTimers = s.timers]

DigitKeys == {"1", "2", "3", "4"}

\* parseInt(e.key) for a digit key
ParseInt(key) ==
    CASE key = "1" -> 1 [] key = "2" -> 2 [] key = "3" -> 3 [] key = "4" -> 4

\* Faulty variant of handleKeyboard: Escape returns to the menu whatever
\* screen is shown.
handleKeyboardEscapeAnywhere(s, key) ==
    LET s1 == IF key \in DigitKeys /\ ~s.answered
                 /\ ParseInt(key) \in DOMAIN s.optionCards
              THEN selectOption(s, ParseInt(key) - 1)
              ELSE s
        s2 == IF s1.threw THEN s1
              ELSE IF key = "Enter" /\ s1.selectedAnswer # Null /\ ~s1.answered
              THEN submitAnswer(s1)
              ELSE s1
    IN  IF s2.threw THEN s2
        ELSE IF key = "Escape" THEN showStartScreen(s2)
        ELSE s2

\* Faulty variant of handleKeyboard: digit d is routed to option d instead
\* of option d-1.
handleKeyboardDigitOffByOne(s, key) ==
    LET s1 == IF key \in DigitKeys /\ ~s.answered
                 /\ ParseInt(key) \in DOMAIN s.optionCards
              THEN selectOption(s, ParseInt(key))
              ELSE s
        s2 == IF s1.threw THEN s1
              ELSE IF key = "Enter" /\ s1.selectedAnswer # Null /\ ~s1.answered
              THEN submitAnswer(s1)
              ELSE s1
    IN  IF s2.threw THEN s2
        ELSE IF key = "Escape" /\ "quiz-screen" \notin s2.hiddenScreens
        THEN showStartScreen(s2)
        ELSE s2

handleKeyboard(s, key) ==
    LET s1 == IF key \in DigitKeys /\ ~s.answered
                 /\ ParseInt(key) \in DOMAIN s.optionCards
              THEN selectOption(s, ParseInt(key) - 1)
              ELSE s
        s2 == IF s1.threw THEN s1
              ELSE IF key = "Enter" /\ s1.selectedAnswer # Null /\ ~s1.answered
              THEN submitAnswer(s1)
              ELSE s1
    IN  IF s2.threw THEN s2
        ELSE IF key = "Escape" /\ "quiz-screen" \notin s2.hiddenScreens
        THEN showStartScreen(s2)
        ELSE s2

\* keydown on a focused option card: the card's own listener runs first
\* (selectOption on Enter or Space), then the event bubbles to the document
\* listener (preventDefault does not stop propagation; an exception thrown
\* by one listener does not keep the next one from running).
optionCardKeydown(s, index, key) ==
    LET s1 == IF key \in {"Enter", " "} THEN selectOption(s, index) ELSE s
        s2 == handleKeyboard([s1 EXCEPT !.threw = FALSE], key)
    IN  [s2 EXCEPT !.threw = s1.threw \/ s2.threw]

(***************************************************************************)
(* Initial state: the object after its constructor, init() still waiting   *)
(* for the fetch. No handler is installed yet.                             *)
(***************************************************************************)
NoEvent ==
    [op |-> "none", arg |-> 0, threw |-> FALSE, stale |-> FALSE,
     renderQuestionCalled |-> FALSE]

Event(op, arg, s) ==
    [op |-> op, arg |-> arg, threw |-> s.threw, stale |-> FALSE,
     renderQuestionCalled |-> s.renderQuestionCalled]

Init ==
    /\ phase = "loading"
    /\ quizzes = <<>>
    /\ currentQuiz = NoQuiz
    /\ currentQuestionIndex = 0
    /\ score = 0
    /\ selectedAnswer = Null
    /\ answered = FALSE
    /\ visibleScreens = {}
    /\ hiddenScreens = {}
    /\ optionCards = <<>>
    /\ submitDisabled = TRUE
    /\ questionNumber = 0
    /\ questionTotal = 0
    /\ progressFill = NoWidth
    /\ scoreNumber = 0
    /\ resultsTotal = 0
    /\ announcement = Message("", "")
    /\ errorsShown = 0
    /\ timers = 0
    /\ dataTheme = ""
    /\ storedTheme \in StoredThemes
    /\ lastEvent = NoEvent
    /\ lastPick = Null
    /\ presented = <<>>
    /\ submitted = <<>>
    /\ expectedScore = 0
    /\ advances = 0
    /\ resultsShown = 0
    /\ interrupted = FALSE
    /\ staleTimers = 0

(***************************************************************************)
(* init(): the fetch resolves with a document, or fails                    *)
(***************************************************************************)
\* loadQuizzes resolved; setupEventListeners, loadTheme, renderStartScreen
InitLoaded ==
    /\ phase = "loading"
    /\ \E doc \in Documents :
        \E s \in {renderStartScreen(loadTheme([State EXCEPT !.quizzes = doc]))} :
            /\ phase' = "ready"
            /\ errorsShown' = errorsShown
            /\ Becomes(s, Event("init", 0, s))

\* loadQuizzes threw (fetch rejected, response not ok, invalid JSON):
\* showError, and no listener is ever installed
InitFailed ==
    /\ phase = "loading"
    /\ phase' = "failed"
    /\ errorsShown' = errorsShown + 1
    /\ lastEvent' = [NoEvent EXCEPT !.op = "initFailed"]
    /\ UNCHANGED <<quizzes, appVars, visibleScreens, hiddenScreens, optionCards,
                   submitDisabled, questionNumber, questionTotal, progressFill,
                   scoreNumber,
                   resultsTotal, announcement, dataTheme, timers, storedTheme,
                   lastPick, presented, submitted, expectedScore, advances, resultsShown,
                   interrupted, staleTimers>>

\* The page is loaded again (the next run): a new document, a new QuizApp
\* whose init waits for the fetch; the timers of the old page are gone and
\* only localStorage is carried over.
Reload ==
    /\ phase # "loading"
    /\ phase' = "loading"
    /\ quizzes' = <<>>
    /\ currentQuiz' = NoQuiz
    /\ currentQuestionIndex' = 0
    /\ score' = 0
    /\ selectedAnswer' = Null
    /\ answered' = FALSE
    /\ visibleScreens' = {}
    /\ hiddenScreens' = {}
    /\ optionCards' = <<>>
    /\ submitDisabled' = TRUE
    /\ questionNumber' = 0
    /\ questionTotal' = 0
    /\ progressFill' = NoWidth
    /\ scoreNumber' = 0
    /\ resultsTotal' = 0
    /\ announcement' = Message("", "")
    /\ errorsShown' = 0
    /\ timers' = 0
    /\ dataTheme' = ""
    /\ storedTheme' = storedTheme
    /\ lastEvent' = NoEvent
    /\ lastPick' = Null
    /\ presented' = <<>>
    /\ submitted' = <<>>
    /\ expectedScore' = 0
    /\ advances' = 0
    /\ resultsShown' = 0
    /\ interrupted' = FALSE
    /\ staleTimers' = 0

(***************************************************************************)
(* Events. Pointer events reach an element only while its screen is shown. *)
(***************************************************************************)
\* Faulty variant of Shown: the click listeners answer before init has
\* installed them.
ShownAnyPhase(id) == id \notin hiddenScreens

Shown(id) == phase = "ready" /\ id \notin hiddenScreens

\* A step may not leave more than MaxTimers timers pending.
WithinBound(s) == s.timers <= MaxTimers

\* click on #theme-toggle
ThemeToggleClick ==
    /\ phase = "ready"
    /\ \E s \in {toggleTheme(State)} :
           Handled(s, Event("themeToggle", 0, s))

\* click on the subject card of quiz q
SubjectClick(q) ==
    /\ Shown("start-screen")
    /\ q \in DOMAIN quizzes
    /\ \E s \in {selectSubject(State, q)} :
           Handled(s, Event("subjectClick", q, s))

\* click on option card i
OptionClick(i) ==
    /\ Shown("quiz-screen")
    /\ i + 1 \in DOMAIN optionCards
    /\ \E s \in {selectOption(State, i)} :
           Handled(s, Event("optionClick", i, s))

\* click on #submit-btn (a disabled button dispatches no click)
SubmitClick ==
    /\ Shown("quiz-screen")
    /\ ~submitDisabled
    /\ \E s \in {submitAnswer(State)} :
           /\ WithinBound(s)
           /\ Handled(s, Event("submitClick", 0, s))

\* click on #play-again-btn
PlayAgainClick ==
    /\ Shown("results-screen")
    /\ \E s \in {startQuiz([State EXCEPT !.interrupted = TRUE])} :
           Handled(s, Event("playAgain", 0, s))

\* click on #back-to-menu-btn
BackToMenuClick ==
    /\ Shown("results-screen")
    /\ \E s \in {showStartScreen(State)} :
           Handled(s, Event("backToMenu", 0, s))

\* keydown on the document, no card focused
KeyDown(key) ==
    /\ phase = "ready"
    /\ \E s \in {handleKeyboard(State, key)} :
           /\ WithinBound(s)
           /\ Handled(s, Event(key, 0, s))

\* keydown of Enter or Space while option card i has the focus
OptionKeyDown(i, key) ==
    /\ Shown("quiz-screen")
    /\ i + 1 \in DOMAIN optionCards
    /\ \E s \in {optionCardKeydown(State, i, key)} :
           /\ WithinBound(s)
           /\ Handled(s, Event(IF key = "Enter" THEN "cardEnter" ELSE "cardSpace",
                               i, s))

\* A pending timer expires (timers of equal delay expire in the order they
\* were set, so the oldest, a stale one if there is any, goes first).
TimerFire ==
    /\ timers > 0
    /\ \E s \in {nextQuestion([State EXCEPT
                    !.timers = @ - 1,
                    !.staleTimers = IF @ > 0 THEN @ - 1 ELSE 0])} :
           Handled(s, [Event("timer", 0, s) EXCEPT !.stale = staleTimers > 0])

Next ==
    \/ InitLoaded
    \/ InitFailed
    \/ Reload
    \/ ThemeToggleClick
    \/ \E q \in 1..2 : SubjectClick(q)
    \/ \E i \in 0..3 : OptionClick(i)
    \/ SubmitClick
    \/ PlayAgainClick
    \/ BackToMenuClick
    \/ \E key \in DigitKeys \cup {"Enter", "Escape"} : KeyDown(key)
    \/ \E i \in 0..3, key \in {"Enter", " "} : OptionKeyDown(i, key)
    \/ TimerFire

Spec == Init /\ [][Next]_vars

(***************************************************************************)
(* The run of a user who stays in the quiz: no Escape, no Back to Menu, no *)
(* page reload. The event loop runs every expired timer's callback; on a   *)
(* question that waits for an answer the user ends up clicking an option   *)
(* and, once the submit button is enabled, clicking it.                    *)
(***************************************************************************)
NextInQuiz ==
    \/ InitLoaded
    \/ InitFailed
    \/ ThemeToggleClick
    \/ \E q \in 1..2 : SubjectClick(q)
    \/ \E i \in 0..3 : OptionClick(i)
    \/ SubmitClick
    \/ PlayAgainClick
    \/ \E key \in DigitKeys \cup {"Enter"} : KeyDown(key)
    \/ \E i \in 0..3, key \in {"Enter", " "} : OptionKeyDown(i, key)
    \/ TimerFire

Fairness ==
    /\ WF_vars(TimerFire)
    /\ WF_vars(\E i \in 0..3 : OptionClick(i) /\ selectedAnswer = Null)
    /\ WF_vars(SubmitClick)

SpecInQuiz == Init /\ [][NextInQuiz]_vars /\ Fairness

(***************************************************************************)
(* Properties                                                              *)
(***************************************************************************)
SubmitOps == {"submitClick", "Enter"}

\* The questions of the active quiz, and the indices 0 .. n-1 in order
Length == Len(QuizOf(State).questions)

UpTo(n) == [i \in 1..n |-> i - 1]

OnlyVisible(id) ==
    /\ visibleScreens = {id}
    /\ hiddenScreens = Screens \ {id}

\* The step handles a submit (button or Enter) that submitAnswer accepts on
\* a question that exists.
AcceptedSubmitStep ==
    /\ lastEvent'.op \in SubmitOps
    /\ selectedAnswer # Null
    /\ ~answered
    /\ HasQuestion(State)

\* C1: an accepted submit sets answered and adds 1 to score exactly when the
\* text of the option picked last equals the answer text, wherever that text
\* stands among the options; otherwise score is unchanged.
C1_SubmitScoresByText ==
    [][ AcceptedSubmitStep =>
            /\ answered'
            /\ score' = score +
                 (IF PickedText(State) = QuestionOf(State).answer THEN 1 ELSE 0)
      ]_vars

\* A correct answer was submitted and counted.
C1_Witness ==
    /\ lastEvent.op \in SubmitOps
    /\ announcement.msg = "Correct!"
    /\ answered
    /\ score = 1

\* C2: when every question of the quiz got one accepted submit, in order and
\* without a return to the menu or Play Again, and the Results screen is
\* shown, the questions were presented as 0 .. length-1, each once, and the
\* score shown is the number of submits whose last picked text was the answer.
C2_StraightThrough ==
    ( /\ Shown("results-screen")
      /\ HasQuestions(State)
      /\ ~interrupted
      /\ submitted = UpTo(Length) )
    => ( /\ presented = UpTo(Length)
         /\ scoreNumber = expectedScore )

\* Scenario A: both questions of the two-question quiz answered correctly.
C2_Witness ==
    /\ Shown("results-screen")
    /\ HasQuestions(State)
    /\ ~interrupted
    /\ Length = 2
    /\ submitted = UpTo(2)
    /\ scoreNumber = 2

\* C3: a timer that was pending at a return to the menu or at a
\* selectSubject never runs nextQuestion.
C3_StaleAdvanceCancelled ==
    lastEvent.op = "timer" => ~lastEvent.stale

\* C4: questionIndex stays between 0 and the number of questions of the
\* active quiz (stated for the quizzes that have at least one question).
C4_IndexWithinLength ==
    (HasQuestions(State) /\ Length >= 1) =>
        /\ currentQuestionIndex >= 0
        /\ currentQuestionIndex <= Length

\* C5: after Play Again the Quiz screen shows a question at a valid index,
\* not answered and with no option selected.
C5_PlayAgainRestarts ==
    lastEvent.op = "playAgain" =>
        /\ OnlyVisible("quiz-screen")
        /\ HasQuestion(State)
        /\ ~answered
        /\ selectedAnswer = Null

\* C6: after selectSubject(q) the active quiz is quiz q, at index 0 with
\* score 0, no selection, not answered, and only the Quiz screen is visible.
C6_SelectSubjectResets ==
    lastEvent.op = "subjectClick" =>
        /\ currentQuiz = lastEvent.arg
        /\ currentQuestionIndex = 0
        /\ score = 0
        /\ selectedAnswer = Null
        /\ ~answered
        /\ OnlyVisible("quiz-screen")

\* A subject chosen after a session that had scored and ended on Results.
C6_Witness ==
    /\ lastEvent.op = "subjectClick"
    /\ scoreNumber > 0
    /\ timers > 0

\* C7: a submit (button or Enter) while no option is selected changes none
\* of score, answered, questionIndex, selection, screens, pending timers.
C7_SubmitWithoutSelection ==
    [][ (lastEvent'.op \in SubmitOps /\ selectedAnswer = Null) =>
            UNCHANGED <<score, answered, currentQuestionIndex, selectedAnswer,
                        visibleScreens, hiddenScreens, timers>>
      ]_vars

\* The enabled submit button was clicked while nothing was selected.
C7_Witness ==
    /\ lastEvent.op = "submitClick"
    /\ selectedAnswer = Null
    /\ ~answered

\* C8: in a quiz of length >= 1, after k <= length calls of nextQuestion
\* since selectSubject the index is k, the questions rendered are
\* 0 .. min(k, length-1) in order, and Results was shown once if k = length
\* and not at all before.
C8_AdvanceVisitsEachIndexOnce ==
    ( /\ HasQuestions(State)
      /\ Length >= 1
      /\ advances <= Length )
    => ( /\ currentQuestionIndex = advances
         /\ presented = UpTo(IF advances < Length THEN advances + 1 ELSE Length)
         /\ resultsShown = (IF advances = Length THEN 1 ELSE 0) )

\* The last of the two advances of the two-question quiz showed Results.
C8_Witness ==
    /\ lastEvent.op = "timer"
    /\ HasQuestions(State)
    /\ Length = 2
    /\ advances = 2
    /\ resultsShown = 1
    /\ OnlyVisible("results-screen")

\* C9: once init has rendered the start screen, exactly one screen carries
\* screen-visible and the two others carry screen-hidden.
C9_ExactlyOneScreen ==
    phase = "ready" =>
        \E id \in Screens : OnlyVisible(id)

\* A timer callback has just switched to the Results screen.
C9_Witness ==
    /\ lastEvent.op = "timer"
    /\ OnlyVisible("results-screen")

\* C10: an accepted submit of an option whose text is not the answer is
\* announced as incorrect, marks as correct exactly the cards of the options
\* whose text is the answer, marks as incorrect exactly the selected card,
\* and leaves score unchanged.
C10_WrongAnswerAnnotated ==
    [][ ( /\ AcceptedSubmitStep
          /\ PickedText(State) # QuestionOf(State).answer )
        => ( /\ announcement'.msg = "Incorrect!"
             /\ DOMAIN optionCards' = DOMAIN QuestionOf(State).options
             /\ \A i \in DOMAIN optionCards' :
                  /\ optionCards'[i].correct =
                        (QuestionOf(State).options[i] = QuestionOf(State).answer)
                  /\ optionCards'[i].correctIcon = optionCards'[i].correct
                  /\ optionCards'[i].incorrect = (i - 1 = selectedAnswer)
                  /\ optionCards'[i].incorrectIcon = optionCards'[i].incorrect
             /\ score' = score )
      ]_vars

\* Scenario B: index 0 submitted where the answer "b" is at index 1.
C10_Witness ==
    /\ lastEvent.op \in SubmitOps
    /\ announcement.msg = "Incorrect!"
    /\ selectedAnswer = 0
    /\ Len(optionCards) = 4
    /\ optionCards[1].incorrect
    /\ optionCards[2].correct
    /\ optionCards[2].text = Tb
    /\ score = 0

\* The events that ask for the selection of an option: a click on a card,
\* Enter or Space on a focused card, a digit key.
SelectOps == {"optionClick", "cardEnter", "cardSpace"} \cup DigitKeys

\* C11: while the current question is answered, a selection request (click
\* on a card, Enter or Space on a focused card, digit key) leaves the
\* selection, the highlighted card, score and answered unchanged.
C11_SelectAfterAnswerIgnored ==
    [][ (answered /\ lastEvent'.op \in SelectOps) =>
            UNCHANGED <<selectedAnswer, optionCards, score, answered>>
      ]_vars

\* An answered question where a card other than the submitted one was
\* clicked.
C11_Witness ==
    /\ lastEvent.op = "optionClick"
    /\ answered
    /\ selectedAnswer # Null
    /\ lastEvent.arg # selectedAnswer
    /\ Shown("quiz-screen")

\* The events that ask for a submit: the button, Enter on the document,
\* Enter bubbling from a focused option card.
SubmitRequestOps == SubmitOps \cup {"cardEnter"}

\* The step ran submitAnswer past its guard (nothing else sets answered).
SubmitAcceptedStep == ~answered /\ answered'

\* C12: every accepted submit leaves exactly one more advance pending and
\* does not advance itself; the index moves only when a pending timer
\* expires, one timer per advance; a rejected submit schedules nothing.
\* (The first part is stated for the quizzes that have at least one
\* question.)
C12_SubmitSchedulesOneAdvance ==
    [][ /\ (SubmitAcceptedStep /\ HasQuestions(State) /\ Length >= 1) =>
              /\ timers' = timers + 1
              /\ currentQuestionIndex' = currentQuestionIndex
        /\ currentQuestionIndex' > currentQuestionIndex =>
              /\ lastEvent'.op = "timer"
              /\ timers > 0
              /\ timers' = timers - 1
        /\ (lastEvent'.op \in SubmitRequestOps /\ ~SubmitAcceptedStep) =>
              timers' = timers
      ]_vars

\* C13: while a quiz is selected, score is between 0 and questionIndex + 1,
\* and is at most the number of questions of that quiz.
C13_ScoreBounded ==
    currentQuiz # NoQuiz =>
        /\ score \in Nat
        /\ score <= currentQuestionIndex + 1
        /\ HasQuestions(State) => score <= Length

\* Scenario A just before the last advance: both questions scored, the
\* score equals questionIndex + 1 and the length.
C13_Witness ==
    /\ HasQuestion(State)
    /\ Length = 2
    /\ answered
    /\ score = currentQuestionIndex + 1
    /\ score = Length

\* C14: every step of a run leaves score unchanged or adds exactly 1 to
\* it, except a selectSubject, which sets it to 0; no other step lowers it.
\* (A page reload ends the run: the next run has a new QuizApp object.)
C14_ScoreNeverDecremented ==
    [][ \/ score' = score
        \/ score' = score + 1
        \/ lastEvent'.op = "subjectClick" /\ score' = 0
        \/ phase' = "loading"
      ]_vars

\* Play Again after a session that had scored: the score is kept.
C14_Witness ==
    /\ lastEvent.op = "playAgain"
    /\ score > 0

\* C15: a step that calls renderQuestion (selectSubject, Play Again, an
\* advance) ends with answered false and no selection; answered becomes
\* true only in a submit step and selection becomes non-null only in a
\* selection step, neither of which renders a question.
C15_RenderResetsAnswerState ==
    [][ /\ lastEvent'.renderQuestionCalled =>
              /\ ~answered'
              /\ selectedAnswer' = Null
        /\ (answered' /\ ~answered) =>
              /\ lastEvent'.op \in SubmitRequestOps
              /\ ~lastEvent'.renderQuestionCalled
        /\ (selectedAnswer' # Null /\ selectedAnswer' # selectedAnswer) =>
              /\ lastEvent'.op \in SelectOps
              /\ ~lastEvent'.renderQuestionCalled
      ]_vars

\* The step runs showStartScreen: Back to Menu, or Escape while the Quiz
\* screen is shown.
ReturnToMenuStep ==
    \/ lastEvent'.op = "backToMenu"
    \/ lastEvent'.op = "Escape" /\ Shown("quiz-screen")

\* C16: after a return to the menu only the Start screen is visible and no
\* quiz is selected: currentQuiz is null, nothing is selected and answered
\* is false.
C16_ReturnToMenuIdle ==
    [][ ReturnToMenuStep =>
            /\ OnlyVisible("start-screen")'
            /\ currentQuiz' = NoQuiz
            /\ selectedAnswer' = Null
            /\ ~answered'
      ]_vars

\* C17: after a step that renders a question (of a quiz that has at least
\* one question) the progress indicator stands at (questionIndex+1)/length
\* and the counter at questionIndex+1 of length; the progress is above 0
\* and at most 100%, and the counter does not exceed the total.
C17_ProgressWithinTotal ==
    ( /\ lastEvent.renderQuestionCalled
      /\ HasQuestions(State)
      /\ Length >= 1 )
    => ( /\ progressFill = <<currentQuestionIndex + 1, Length>>
         /\ questionNumber = currentQuestionIndex + 1
         /\ questionTotal = Length
         /\ 0 < progressFill[1]
         /\ progressFill[1] <= progressFill[2]
         /\ questionNumber <= questionTotal )

\* The loaded document holds a quiz without a questions field.
LacksQuestions == \E q \in DOMAIN quizzes : ~quizzes[q].hasQuestions

\* C18: when a quiz of the document lacks its questions field the load
\* fails: one error notification is shown, no quiz is ever selected and no
\* handler fails.
C18_MalformedDocumentRejected ==
    LacksQuestions =>
        /\ phase = "failed"
        /\ errorsShown = 1
        /\ currentQuiz = NoQuiz
        /\ ~lastEvent.threw

\* The session and the page are as the constructor left them.
Untouched ==
    /\ quizzes = <<>>
    /\ currentQuiz = NoQuiz
    /\ currentQuestionIndex = 0
    /\ score = 0
    /\ selectedAnswer = Null
    /\ ~answered
    /\ visibleScreens = {}
    /\ hiddenScreens = {}
    /\ optionCards = <<>>
    /\ dataTheme = ""
    /\ timers = 0

\* C19: after a failed load exactly one error notification was created,
\* the load is not tried again (the page never becomes ready) and no event
\* is handled: session and screens stay as constructed; and while the load
\* is still pending no event has been handled either.
C19_FailedLoadStaysIdle ==
    /\ phase = "failed" =>
          /\ errorsShown = 1
          /\ lastEvent.op = "initFailed"
          /\ Untouched
    /\ phase = "loading" =>
          /\ errorsShown = 0
          /\ lastEvent = NoEvent
          /\ Untouched
    /\ phase = "ready" => errorsShown = 0

\* The load has failed and its notification is shown.
C19_Witness ==
    /\ phase = "failed"
    /\ lastEvent.op = "initFailed"
    /\ errorsShown = 1

\* C20: from an applied theme of light or dark, two toggleTheme calls give
\* the applied theme back; after any toggleTheme the saved theme is the
\* applied one.
C20_ToggleTwiceRestores ==
    /\ (phase = "ready" /\ dataTheme \in {"light", "dark"}) =>
          /\ toggleTheme(State).dataTheme # dataTheme
          /\ toggleTheme(toggleTheme(State)).dataTheme = dataTheme
          /\ toggleTheme(toggleTheme(State)).storedTheme = dataTheme
    /\ phase = "ready" =>
          toggleTheme(State).storedTheme = toggleTheme(State).dataTheme
    /\ lastEvent.op = "themeToggle" =>
          /\ storedTheme = dataTheme
          /\ dataTheme \in {"light", "dark"}

\* The toggle was clicked during a quiz and the light theme is applied and
\* saved again.
C20_Witness ==
    /\ lastEvent.op = "themeToggle"
    /\ dataTheme = "light"
    /\ storedTheme = "light"
    /\ Shown("quiz-screen")

C22_EscapeOnlyOnQuizScreen ==
    [][ lastEvent'.op = "Escape" =>
            IF Shown("quiz-screen")
            THEN /\ OnlyVisible("start-screen")'
                 /\ interrupted'
            ELSE UNCHANGED <<appVars, visibleScreens, hiddenScreens, optionCards,
                             submitDisabled, timers, interrupted, staleTimers>>
      ]_vars

\* Escape was pressed on the Results screen, which is still shown.
C22_Witness ==
    /\ lastEvent.op = "Escape"
    /\ OnlyVisible("results-screen")
    /\ ~interrupted

\* The number of options of the current question, 0 when there is none
OptionCount ==
    IF HasQuestion(State) THEN Len(QuestionOf(State).options) ELSE 0

\* What no selection, submit or advance leaves changed
SessionAndPage ==
    <<appVars, visibleScreens, hiddenScreens, optionCards, submitDisabled,
      timers>>

\* C23: a digit key d selects option d-1 when the current question has at
\* least d options and is not answered; when d exceeds the number of its
\* options, or it is answered, the key changes nothing; no error either way.
\* (Stated for the quizzes that have at least one question.)
C23_DigitKeySelects ==
    [][ ( /\ lastEvent'.op \in DigitKeys
          /\ HasQuestions(State)
          /\ Length >= 1 )
        => /\ ~lastEvent'.threw
           /\ IF ParseInt(lastEvent'.op) <= OptionCount /\ ~answered
              THEN /\ selectedAnswer' = ParseInt(lastEvent'.op) - 1
                   /\ \A i \in DOMAIN optionCards' :
                        optionCards'[i].selected = (i = ParseInt(lastEvent'.op))
                   /\ UNCHANGED <<score, answered, currentQuestionIndex, timers>>
              ELSE UNCHANGED SessionAndPage
      ]_vars

\* C24: Enter or Space on a focused option card has exactly the effect of
\* selectOption on that card: same selection, cards and submit button, and
\* answered, score and the pending timers as selectOption leaves them.
C24_CardKeyIsSelectOption ==
    [][ lastEvent'.op \in {"cardEnter", "cardSpace"} =>
            /\ selectedAnswer' = selectOption(State, lastEvent'.arg).selectedAnswer
            /\ optionCards' = selectOption(State, lastEvent'.arg).optionCards
            /\ submitDisabled' = selectOption(State, lastEvent'.arg).submitDisabled
            /\ answered' = answered
            /\ score' = score
            /\ timers' = timers
      ]_vars

\* C25: in every state where the handlers are installed, the document's
\* keydown handler does for Enter exactly what submitAnswer does, and for a
\* digit d whose card exists exactly what selectOption(d-1) does.
C25_DispatcherOnlyRoutes ==
    phase = "ready" =>
        /\ handleKeyboard(State, "Enter") = submitAnswer(State)
        /\ \A key \in DigitKeys :
              ParseInt(key) \in DOMAIN optionCards =>
                  handleKeyboard(State, key) = selectOption(State, ParseInt(key) - 1)

\* Enter, with no card focused, has submitted the option selected by a
\* digit key.
C25_Witness ==
    /\ lastEvent.op = "Enter"
    /\ ~lastEvent.threw
    /\ answered
    /\ selectedAnswer = 1
    /\ timers = 1
    /\ announcement.msg = "Correct!"

\* C26: at most one auto-advance timer is pending.
C26_AtMostOneTimerPending ==
    timers <= 1

\* C27: no handler fails on an undefined question (stated for the quizzes
\* that have at least one question): renderQuestion and submitAnswer only
\* read questions[questionIndex] while the index is below the length.
C27_NoUndefinedQuestion ==
    (HasQuestions(State) /\ Length >= 1) => ~lastEvent.threw

\* C28: while the Quiz screen is not the one shown, a digit key or Enter
\* changes neither the selection nor answered nor score, and sets no timer.
C28_KeysOnlyOnQuizScreen ==
    [][ ( /\ lastEvent'.op \in DigitKeys \cup {"Enter"}
          /\ ~Shown("quiz-screen") )
        => UNCHANGED <<selectedAnswer, answered, score, timers>>
      ]_vars

\* C29: whenever showResults runs (for a quiz that has at least one
\* question), every index 0 .. length-1 has had exactly one accepted submit
\* since the last selectSubject, and the screen it replaces is the Quiz
\* screen, not the Start screen.
C29_ResultsOnlyWhenExhausted ==
    [][ ( /\ resultsShown' = resultsShown + 1
          /\ HasQuestions(State)
          /\ Length >= 1 )
        => ( /\ submitted = UpTo(Length)
             /\ Shown("quiz-screen") )
      ]_vars

\* C30: since the last selectSubject no question index has had two
\* accepted submits, and score is at most the number of indices submitted.
C30_EachIndexScoredOnce ==
    /\ \A i, j \in DOMAIN submitted :
          i # j => submitted[i] # submitted[j]
    /\ score <= Len(submitted)

\* Enter pressed again on a question already answered and scored: nothing
\* was submitted a second time.
C30_Witness ==
    /\ lastEvent.op = "Enter"
    /\ announcement.msg = ""
    /\ answered
    /\ submitted = <<0>>
    /\ score = 1
    /\ timers = 1

\* C31: with timers that expire and a user who answers every question and
\* stays in the quiz, a session started by selectSubject on a quiz with at
\* least one question reaches the Results screen.
C31_SessionCompletes ==
    ( /\ lastEvent.op = "subjectClick"
      /\ HasQuestions(State)
      /\ Length >= 1 )
    ~> OnlyVisible("results-screen")

\* The two-question quiz was answered to its end without leaving it.
C31_Witness ==
    /\ OnlyVisible("results-screen")
    /\ lastEvent.op = "timer"
    /\ HasQuestions(State)
    /\ Length = 2
    /\ submitted = UpTo(2)
    /\ timers = 0

\* The events of the session: selectSubject, selectOption, submit, advance,
\* returnToMenu, Play Again, by pointer, key or timer.
SessionOps ==
    {"subjectClick", "optionClick", "cardEnter", "cardSpace", "submitClick",
     "playAgain", "backToMenu", "timer", "Enter", "Escape"} \cup DigitKeys

\* C32: a theme toggle changes no session field, screen, card or pending
\* timer; no session event changes the applied or the saved theme.
C32_ThemeSessionIndependent ==
    [][ /\ lastEvent'.op = "themeToggle" => UNCHANGED SessionAndPage
        /\ lastEvent'.op \in SessionOps => UNCHANGED <<dataTheme, storedTheme>>
      ]_vars

\* The theme was toggled while an answered question waits for its advance.
C32_Witness ==
    /\ lastEvent.op = "themeToggle"
    /\ Shown("quiz-screen")
    /\ answered
    /\ score = 1
    /\ timers = 1
    /\ dataTheme = "dark"

\* C33: once loadTheme has run, and after any number of toggles, the
\* applied theme is light or dark, whatever localStorage held at startup.
C33_AppliedThemeLightOrDark ==
    phase = "ready" => dataTheme \in {"light", "dark"}
====
